---- MODULE Spec2Model ----
(***************************************************************************)
(* Model of make_neg_sets.py: 1:1 negative sampling per miRNA family block. *)
(*                                                                         *)
(* A text field is a TLA+ string.  A Python value held in a DataFrame cell *)
(* is a record [ty, s]: ty is the Python type ("str", "int", "bool") and s *)
(* is the text the value is written as.  Two cells are equal as Python     *)
(* values exactly when the records are equal, so the int 1 and the str '1' *)
(* are different values although both are written "1".                     *)
(* A DataFrame is [columns, index, rows]: the column order, the index      *)
(* labels and one record (column name -> cell) per row.                    *)
(* A file is its lines, a line the sequence of its tab-separated fields.   *)
(* The random generator is a function of its seed: mt19937 records, for    *)
(* every seed used so far, the stream the generator of that seed produces. *)
(* yielded and written are history: the blocks the generator has yielded   *)
(* and the records each completed call of process_block has written.       *)
(***************************************************************************)
EXTENDS Integers, Sequences, FiniteSets, TLC

VARIABLES ifile, ofile, prev_ofile, run, pc, ret, positive_samples,
          all_clusters, gen, block, unique_mirnas, frame, mt19937, yielded, written

vars == <<ifile, ofile, prev_ofile, run, pc, ret, positive_samples,
          all_clusters, gen, block, unique_mirnas, frame, mt19937, yielded, written>>

\* Largest number of data rows of an input file.
MaxRows == 3

----------------------------------------------------------------------------
\* Generic helpers on sequences.

Range(s) == {s[i] : i \in 1..Len(s)}

InList(x, s) == \E i \in 1..Len(s) : s[i] = x

IndexOf(s, x) == CHOOSE i \in 1..Len(s) : s[i] = x

\* The positions of `keep`, a subset of 1..n, in increasing order.
Positions(n, keep) == SelectSeq([i \in 1..n |-> i], LAMBDA i : i \in keep)

Flatten(ss) ==
    LET F[i \in 0..Len(ss)] == IF i = 0 THEN <<>> ELSE F[i - 1] \o ss[i]
    IN F[Len(ss)]

----------------------------------------------------------------------------
\* The input files the model draws from.

GeneColumns ==
    <<"gene", "feature", "test", "chr", "start", "end", "strand", "gene_cluster_ID">>

Headers ==
    { <<"noncodingRNA", "noncodingRNA_name", "noncodingRNA_fam", "gene", "feature",
        "test", "chr", "start", "end", "strand", "gene_cluster_ID", "label">> }

Let7a ==
    [noncodingRNA |-> "UGAGGUAGUAGGUUGUAUAGUU", noncodingRNA_name |-> "hsa-let-7a-5p",
     noncodingRNA_fam |-> "let-7"]

Let7b ==
    [noncodingRNA |-> "UGAGGUAGUAGGUUGUGUGGUU", noncodingRNA_name |-> "hsa-let-7b-5p",
     noncodingRNA_fam |-> "let-7"]

MiR4454 ==
    [noncodingRNA |-> "GGAUCCGAGUCACGGCACCA", noncodingRNA_name |-> "hsa-miR-4454",
     noncodingRNA_fam |-> "unknown"]

MiR7704 ==
    [noncodingRNA |-> "CGGGGUCGGCGGCGACGUG", noncodingRNA_name |-> "hsa-miR-7704",
     noncodingRNA_fam |-> "unknown"]

ENSG01 ==
    [gene |-> "ENSG01", feature |-> "three_prime_utr", test |-> "False", chr |-> "1",
     start |-> "100", end |-> "150", strand |-> "+", gene_cluster_ID |-> "1"]

ENSG03 ==
    [gene |-> "ENSG03", feature |-> "exon", test |-> "True", chr |-> "2",
     start |-> "300", end |-> "350", strand |-> "-", gene_cluster_ID |-> "2"]

ENSG04 ==
    [gene |-> "ENSG04", feature |-> "exon", test |-> "False", chr |-> "X",
     start |-> "500", end |-> "550", strand |-> "-", gene_cluster_ID |-> "c3"]

\* The fields pd.read_csv parses as integers (all are written by to_csv as
\* they were read) and as booleans.
IntTokens == {"0", "1", "2", "100", "150", "300", "350", "500", "550"}

BoolTokens == {"True", "False"}

Field(r, g, c) ==
    IF c \in DOMAIN r THEN r[c] ELSE IF c \in DOMAIN g THEN g[c] ELSE "1"

\* One data line of a positive file: line.strip().split('\t'), the label
\* of a positive is 1.
Line(h, r, g) == [i \in 1..Len(h) |-> Field(r, g, h[i])]

\* The files of at most MaxRows data lines, in any order, with header h.
FilesWith(h, rnas, genes) ==
    LET lines == {Line(h, r, g) : r \in rnas, g \in genes}
    IN { [header |-> h, lines |-> ls] :
           ls \in UNION { [1..n -> lines] : n \in 0..MaxRows } }

\* The genes of an input file: two genes whose cluster ids are integers, or
\* one of them and a gene whose cluster id is not a number.
GeneSides == { {ENSG01, ENSG03}, {ENSG01, ENSG04} }

\* The RNAs of an input file: one member of let-7 and two RNAs of unknown
\* family, or the two members of let-7.
RnaSides == { {Let7a, MiR4454, MiR7704}, {Let7a, Let7b} }

\* The RNAs of the input files of the runs that are repeated.
RnaSidesTwice == { {Let7a, MiR4454} }

----------------------------------------------------------------------------
\* Python values and DataFrames.

PyStr(t) == [ty |-> "str", s |-> t]

None == <<>>

EmptyDF == [columns |-> <<>>, index |-> <<>>, rows |-> <<>>]

\* pd.DataFrame(current_block, columns=header_columns): every cell is the
\* str split from the line, the index is 0..n-1.
DataFrame(data, columns) ==
    [columns |-> columns,
     index   |-> [i \in 1..Len(data) |-> i - 1],
     rows    |-> [i \in 1..Len(data) |->
                    [c \in Range(columns) |-> PyStr(data[i][IndexOf(columns, c)])]]]

\* df[mask]: the rows at the kept positions, with their index labels.
Take(df, positions) ==
    [columns |-> df.columns,
     index   |-> [k \in 1..Len(positions) |-> df.index[positions[k]]],
     rows    |-> [k \in 1..Len(positions) |-> df.rows[positions[k]]]]

Column(df, c) == [i \in 1..Len(df.rows) |-> df.rows[i][c]]

\* Series.unique().tolist(): the distinct values in order of first appearance.
Unique(s) ==
    LET first == Positions(Len(s), {i \in 1..Len(s) : \A j \in 1..(i - 1) : s[j] # s[i]})
    IN [k \in 1..Len(first) |-> s[first[k]]]

\* The dtype pd.read_csv infers for a column from its fields.
InferType(tokens) ==
    IF tokens = {} THEN "str"
    ELSE IF tokens \subseteq IntTokens THEN "int"
    ELSE IF tokens \subseteq BoolTokens THEN "bool"
    ELSE "str"

\* pd.read_csv(ifile, sep='\t')
ReadCsv(file) ==
    LET h == file.header
        n == Len(file.lines)
        dtype(c) == InferType({file.lines[i][IndexOf(h, c)] : i \in 1..n})
    IN [columns |-> h,
        index   |-> [i \in 1..n |-> i - 1],
        rows    |-> [i \in 1..n |->
                       [c \in Range(h) |-> [ty |-> dtype(c),
                                            s  |-> file.lines[i][IndexOf(h, c)]]]]]

\* DataFrame.to_csv(sep='\t', index=False, header=False): one line per row,
\* the cells written in column order.
ToCsv(df) ==
    [i \in 1..Len(df.rows) |-> [k \in 1..Len(df.columns) |-> df.rows[i][df.columns[k]].s]]

\* df[columns]: the named columns, in the order named.
SelectColumns(df, columns) ==
    [columns |-> columns,
     index   |-> df.index,
     rows    |-> [i \in 1..Len(df.rows) |-> [c \in Range(columns) |-> df.rows[i][c]]]]

\* df[c] = values: the values are assigned by position; a new column is
\* appended after the existing ones.
AssignColumn(df, c, values) ==
    [columns |-> IF InList(c, df.columns) THEN df.columns ELSE Append(df.columns, c),
     index   |-> df.index,
     rows    |-> [i \in 1..Len(df.rows) |->
                    [x \in DOMAIN df.rows[i] \cup {c} |->
                        IF x = c THEN values[i] ELSE df.rows[i][x]]]]

----------------------------------------------------------------------------
\* yield_mirnafam_blocks: a generator.  Its state is where it is suspended
\* (at), the number of data lines read (pos) and its locals.

NewGenerator ==
    [at |-> "start", pos |-> 0, current_block |-> <<>>, current_mirnafam |-> None,
     columns |-> <<>>]

mirnafam_index(file) == IndexOf(file.header, "noncodingRNA_fam")

\* The generator ends after the loop without the yield of lines 41-43.
GenFinishNoYield(g, file) ==
    [done |-> TRUE, block |-> EmptyDF, gen |-> [g EXCEPT !.at = "end"]]

\* Lines 41-43: after the last line the rows collected so far are yielded.
GenFinish(g, file) ==
    IF g.current_block # <<>>
    THEN [done |-> FALSE, block |-> DataFrame(g.current_block, file.header),
          gen |-> [g EXCEPT !.at = "L43"]]
    ELSE [done |-> TRUE, block |-> EmptyDF, gen |-> [g EXCEPT !.at = "end"]]

\* Lines 28-39: the loop over the data lines, run up to the next yield.
RECURSIVE GenLoop(_, _)
GenLoop(g, file) ==
    IF g.pos >= Len(file.lines)
    THEN GenFinish(g, file)
    ELSE LET columns  == file.lines[g.pos + 1]
             mirnafam == columns[mirnafam_index(file)]
             read     == [g EXCEPT !.pos = @ + 1, !.columns = columns]
         IN IF <<mirnafam>> # g.current_mirnafam
            THEN IF g.current_block # <<>>
                 THEN [done |-> FALSE,
                       block |-> DataFrame(g.current_block, file.header),
                       gen |-> [read EXCEPT !.at = "L35"]]
                 ELSE GenLoop([read EXCEPT !.current_block = <<columns>>,
                                           !.current_mirnafam = <<mirnafam>>], file)
            ELSE GenLoop([read EXCEPT !.current_block = Append(@, columns)], file)

\* next(gen): resume the generator where it is suspended.
GenResume(g, file) ==
    CASE g.at = "start" -> GenLoop(g, file)
      [] g.at = "L35"   ->
            GenLoop([g EXCEPT !.current_block = <<g.columns>>,
                              !.current_mirnafam = <<g.columns[mirnafam_index(file)]>>],
                    file)
      [] OTHER          -> [done |-> TRUE, block |-> EmptyDF, gen |-> [g EXCEPT !.at = "end"]]

----------------------------------------------------------------------------
\* process_block

\* Lines 49-58: sha256 of the name, as an integer, modulo 4294967295,
\* written in decimal (the values are those of hashlib for these names).
Seed(miRNA_name) ==
    CASE miRNA_name = "hsa-let-7a-5p" -> "2466219255"
      [] miRNA_name = "hsa-let-7b-5p" -> "1441478922"
      [] miRNA_name = "hsa-miR-4454"  -> "1510170327"
      [] miRNA_name = "hsa-miR-7704"  -> "4063084432"

\* random_state left out: the generator is seeded by the system, anew in
\* every run.
RandomStateFromEntropy(seed) == IF run = 1 THEN "entropy-1" ELSE "entropy-2"

\* random_state=seed: each sample() call builds a new generator from the
\* seed alone, so the stream it draws from is identified by the seed.
RandomState(seed) == seed

\* The streams a generator may produce; which one a seed produces is fixed
\* the first time the seed is used (mt19937).
Streams == {0, 1}

\* RandomState.permutation(n) for a generator producing stream st.
Permutation(st, n) == [i \in 1..n |-> ((i - 1 + st) % n) + 1]

\* DataFrame.sample(n=n, random_state=...): rows permutation(len)[:n].
Sample(df, n, st) ==
    LET perm == Permutation(st, Len(df.rows))
    IN Take(df, [k \in 1..n |-> perm[k]])

\* DataFrame.sample(frac=1, random_state=...)
Shuffle(df, st) == Sample(df, Len(df.rows), st)

\* The shuffled pool without drop_duplicates.
DropDuplicatesKeepAll(df) == df

\* drop_duplicates(subset=['gene_cluster_ID'], keep='first')
DropDuplicates(df) ==
    Take(df, Positions(Len(df.rows),
                       {i \in 1..Len(df.rows) :
                          \A j \in 1..(i - 1) :
                             df.rows[j]["gene_cluster_ID"] # df.rows[i]["gene_cluster_ID"]}))

\* Line 64
AllowedClusters(clusters, block_clusters) ==
    SelectSeq(clusters, LAMBDA cluster : ~InList(cluster, block_clusters))

\* Line 67: positive_samples[positive_samples['gene_cluster_ID'].isin(allowed)]
IsIn(df, allowed) ==
    Take(df, Positions(Len(df.rows),
                       {i \in 1..Len(df.rows) :
                          InList(df.rows[i]["gene_cluster_ID"], allowed)}))

\* Lines 61-70
NegativePool(b, table, clusters, st) ==
    LET block_clusters          == Unique(Column(b, "gene_cluster_ID"))
        mirfam_allowed_clusters == AllowedClusters(clusters, block_clusters)
    IN DropDuplicates(Shuffle(IsIn(table, mirfam_allowed_clusters), st))

\* The number of negatives taken from the clusters of the block instead of
\* its rows.
NumNegClusters(b) == Len(Unique(Column(b, "gene_cluster_ID")))

\* Line 73
NumNeg(b) == Len(b.rows)

\* Lines 82-91: the gene columns of the sampled rows, the RNA columns of the
\* block by position, and the label 0.
Assemble(negative_genes, b) ==
    LET genes == SelectColumns(negative_genes, GeneColumns)
        seq   == AssignColumn(genes, "noncodingRNA", Column(b, "noncodingRNA"))
        name  == AssignColumn(seq, "noncodingRNA_name", Column(b, "noncodingRNA_name"))
        fam   == AssignColumn(name, "noncodingRNA_fam", Column(b, "noncodingRNA_fam"))
    IN AssignColumn(fam, "label", [i \in 1..Len(fam.rows) |-> [ty |-> "int", s |-> "0"]])

\* The columns left in the order they were assembled in.
ReorderSkipped(negatives_df, b) == negatives_df

\* Line 94: negatives_df[block.columns]
Reorder(negatives_df, b) == SelectColumns(negatives_df, b.columns)

\* to_csv with the default mode='w'
OverwriteCsv(file, df) == ToCsv(df)

\* to_csv(..., mode='a')
AppendCsv(file, df) == file \o ToCsv(df)

\* The error caught by the caller, which goes on with the next block.
RaiseCaught(return) == return

\* Line 76: the ValueError is not caught by main, the run ends there.
Raise(return) == "raised"

NoFrame ==
    [block |-> EmptyDF, seed |-> "", negative_pool |-> EmptyDF, num_neg |-> 0,
     negatives_df |-> EmptyDF]

\* Line 134: block[block['noncodingRNA'] == mirna]
SubBlock(b, mirna) ==
    Take(b, Positions(Len(b.rows),
                      {i \in 1..Len(b.rows) : b.rows[i]["noncodingRNA"] = mirna}))

Fam(b) == b.rows[1]["noncodingRNA_fam"].s

----------------------------------------------------------------------------
\* The run of main, and a second run of it on the same input.

Start(sides) ==
    /\ \E h \in Headers, rnas \in sides, genes \in GeneSides :
          ifile \in FilesWith(h, rnas, genes)
    /\ ofile = <<>>
    /\ prev_ofile = <<>>
    /\ run = 1
    /\ pc = "L112"
    /\ ret = "L122"
    /\ positive_samples = EmptyDF
    /\ all_clusters = <<>>
    /\ gen = NewGenerator
    /\ block = EmptyDF
    /\ unique_mirnas = <<>>
    /\ frame = NoFrame
    /\ mt19937 = {}
    /\ yielded = <<>>
    /\ written = <<>>

Init == Start(RnaSides)

InitTwice == Start(RnaSidesTwice)

\* Lines 112-118: load the table, write the header (mode 'w'), collect the
\* cluster ids; line 122 creates the generator.
ReadInput ==
    /\ pc = "L112"
    /\ positive_samples' = ReadCsv(ifile)
    /\ ofile' = <<ifile.header>>
    /\ all_clusters' = Unique(Column(ReadCsv(ifile), "gene_cluster_ID"))
    /\ gen' = NewGenerator
    /\ pc' = "L122"
    /\ UNCHANGED <<ifile, prev_ofile, run, ret, block, unique_mirnas, frame, mt19937,
                   yielded, written>>

\* Line 122: the for loop asks the generator for the next block.
NextBlock ==
    /\ pc = "L122"
    /\ LET r == GenResume(gen, ifile)
       IN /\ gen' = r.gen
          /\ IF r.done
             THEN /\ pc' = "end"
                  /\ UNCHANGED <<block, yielded>>
             ELSE /\ pc' = "L125"
                  /\ block' = r.block
                  /\ yielded' = Append(yielded, r.block)
    /\ UNCHANGED <<ifile, ofile, prev_ofile, run, ret, positive_samples, all_clusters,
                   unique_mirnas, frame, mt19937, written>>

\* process_block(b, positive_samples, all_clusters, ofile) up to line 97;
\* return is where main continues after the call.
Call(b, return) ==
    \E st \in Streams :
       LET seed          == Seed(b.rows[1]["noncodingRNA_name"].s)
           negative_pool == NegativePool(b, positive_samples, all_clusters, st)
           num_neg       == NumNeg(b)
           locals        == [block |-> b, seed |-> seed, negative_pool |-> negative_pool,
                             num_neg |-> num_neg, negatives_df |-> EmptyDF]
       IN /\ \A p \in mt19937 : p[1] = RandomState(seed) => p[2] = st
          /\ mt19937' = mt19937 \cup {<<RandomState(seed), st>>}
          /\ ret' = return
          /\ IF num_neg > Len(negative_pool.rows)
             THEN /\ pc' = Raise(return)
                  /\ frame' = locals
                  /\ ofile' = ofile
             ELSE /\ pc' = "L100"
                  /\ frame' = [locals EXCEPT !.negatives_df =
                                  Reorder(Assemble(Sample(negative_pool, num_neg, st), b), b)]
                  /\ ofile' = AppendCsv(ofile, b)

\* Lines 141-143: a block of a known family is processed as it is.
ProcessFamilyBlock ==
    /\ pc = "L125"
    /\ Fam(block) # "unknown"
    /\ Call(block, "L122")
    /\ UNCHANGED <<ifile, prev_ofile, run, positive_samples, all_clusters, gen, block,
                   unique_mirnas, yielded, written>>

\* Lines 125-128: the distinct sequences of an 'unknown' block.
SplitUnknown ==
    /\ pc = "L125"
    /\ Fam(block) = "unknown"
    /\ unique_mirnas' = Unique(Column(block, "noncodingRNA"))
    /\ pc' = "L131"
    /\ UNCHANGED <<ifile, ofile, prev_ofile, run, ret, positive_samples, all_clusters,
                   gen, block, frame, mt19937, yielded, written>>

\* Lines 131-137: the rows of the next sequence are processed as a block.
ProcessSubBlock ==
    /\ pc = "L131"
    /\ unique_mirnas # <<>>
    /\ unique_mirnas' = Tail(unique_mirnas)
    /\ Call(SubBlock(block, Head(unique_mirnas)), "L131")
    /\ UNCHANGED <<ifile, prev_ofile, run, positive_samples, all_clusters, gen, block,
                   yielded, written>>

\* Line 100, and the return to main: the loop over the sequences goes on,
\* or when it is over the loop over the blocks does.
WriteNegatives ==
    /\ pc = "L100"
    /\ ofile' = AppendCsv(ofile, frame.negatives_df)
    /\ written' = Append(written, [src |-> Len(yielded),
                                   positives |-> ToCsv(frame.block),
                                   negatives |-> ToCsv(frame.negatives_df)])
    /\ frame' = NoFrame
    /\ pc' = IF ret = "L131" /\ unique_mirnas # <<>> THEN "L131" ELSE "L122"
    /\ UNCHANGED <<ifile, prev_ofile, run, ret, positive_samples, all_clusters, gen,
                   block, unique_mirnas, mt19937, yielded>>

\* The program is started again on the same input and output paths.
Rerun ==
    /\ pc \in {"end", "raised"}
    /\ run = 1
    /\ run' = 2
    /\ prev_ofile' = ofile
    /\ pc' = "L112"
    /\ ret' = "L122"
    /\ positive_samples' = EmptyDF
    /\ all_clusters' = <<>>
    /\ gen' = NewGenerator
    /\ block' = EmptyDF
    /\ unique_mirnas' = <<>>
    /\ frame' = NoFrame
    /\ yielded' = <<>>
    /\ written' = <<>>
    /\ UNCHANGED <<ifile, ofile, mt19937>>

Next ==
    \/ ReadInput
    \/ NextBlock
    \/ ProcessFamilyBlock
    \/ SplitUnknown
    \/ ProcessSubBlock
    \/ WriteNegatives

Spec == Init /\ [][Next]_vars

NextTwice ==
    \/ ReadInput
    \/ NextBlock
    \/ ProcessFamilyBlock
    \/ SplitUnknown
    \/ ProcessSubBlock
    \/ WriteNegatives
    \/ Rerun

SpecTwice == InitTwice /\ [][NextTwice]_vars

----------------------------------------------------------------------------
\* Vocabulary of the properties: the records of the output are lines of
\* text, read through the header of the input.

RnaColumns == {"noncodingRNA", "noncodingRNA_name", "noncodingRNA_fam"}

Cell(line, c) == line[IndexOf(ifile.header, c)]

ClusterIds(lines) == {Cell(lines[i], "gene_cluster_ID") : i \in 1..Len(lines)}

\* The records written by the completed calls of process_block, call by call.
Groups == [k \in 1..Len(written) |-> written[k].positives \o written[k].negatives]

\* The number of rows written by the calls made for the j-th yielded block.
RowsWrittenFor(j) ==
    Len(Flatten([k \in 1..Len(written) |->
                    IF written[k].src = j THEN written[k].positives ELSE <<>>]))

\* The blocks the loop of main is through with.
Finished(j) == j < Len(yielded) \/ (j = Len(yielded) /\ pc \in {"L122", "end"})

\* The call of process_block in progress has found its pool too small.
Failed == frame.num_neg > Len(frame.negative_pool.rows)

----------------------------------------------------------------------------
\* C1: for every block process_block completes, the cluster ids of the
\* negative records written for it are disjoint from the cluster ids of the
\* positive records of the block.
Disjointness ==
    \A k \in 1..Len(written) :
        ClusterIds(written[k].negatives) \cap ClusterIds(written[k].positives) = {}

\* C2: no two negative records written for one block have the same
\* cluster id.
NegativeUniqueness ==
    \A k \in 1..Len(written) :
        \A i, j \in 1..Len(written[k].negatives) :
            i # j => Cell(written[k].negatives[i], "gene_cluster_ID")
                     # Cell(written[k].negatives[j], "gene_cluster_ID")

\* A block got two negatives, one of them of a cluster for which the table
\* holds two candidate rows.
NegativeUniquenessWitness ==
    \E k \in 1..Len(written) :
        /\ Len(written[k].negatives) >= 2
        /\ \E i, j \in 1..Len(ifile.lines) :
              /\ i # j
              /\ Cell(ifile.lines[i], "gene_cluster_ID") = Cell(ifile.lines[j], "gene_cluster_ID")
              /\ Cell(ifile.lines[i], "gene_cluster_ID") \in ClusterIds(written[k].negatives)

\* C3: every completed block gets as many negatives as it has positives,
\* and the output of a run that completes holds as many label-0 records as
\* the input has rows.
OneToOne ==
    /\ \A k \in 1..Len(written) :
          Len(written[k].negatives) = Len(written[k].positives)
    /\ pc = "end" =>
          Cardinality({i \in 2..Len(ofile) : Cell(ofile[i], "label") = "0"})
              = Len(ifile.lines)

OneToOneWitness ==
    /\ pc = "end"
    /\ \E k \in 1..Len(written) : Len(written[k].positives) >= 2

\* The size of the candidate pool as C4 defines it: one row per cluster of
\* the input that does not occur in the block.
ClaimedPoolSize(b) ==
    Cardinality(ClusterIds(ifile.lines) \ ClusterIds(ToCsv(b)))

\* C4: process_block raises if and only if the block has more rows than
\* there are clusters that do not occur in the block.
RaisesIffPoolTooSmall ==
    /\ pc = "raised" => Len(frame.block.rows) > ClaimedPoolSize(frame.block)
    /\ pc = "L100"   => Len(frame.block.rows) <= ClaimedPoolSize(frame.block)

\* C5: the output is the header, once and first, then block after block in
\* the order of the segmenter, the positives of a block immediately followed
\* by its negatives.
OutputOrder ==
    pc # "L112" =>
        /\ ofile = <<ifile.header>> \o Flatten(Groups)
                     \o (IF pc = "L100" THEN ToCsv(frame.block) ELSE <<>>)
        /\ \A i \in 2..Len(ofile) : ofile[i] # ifile.header
        /\ \A k \in 1..Len(written) :
              /\ written[k].src \in 1..Len(yielded)
              /\ k > 1 => written[k - 1].src <= written[k].src
              /\ Range(written[k].positives) \subseteq Range(ToCsv(yielded[written[k].src]))
              /\ Fam(yielded[written[k].src]) # "unknown"
                    => written[k].positives = ToCsv(yielded[written[k].src])
        /\ \A j \in 1..Len(yielded) :
              Finished(j) => RowsWrittenFor(j) = Len(yielded[j].rows)

OutputOrderWitness ==
    /\ pc = "end"
    /\ Len(written) >= 2
    /\ written[1].src # written[Len(written)].src

\* C6: a second run on the same input ends with the same output as the
\* first.
Determinism ==
    (run = 2 /\ pc \in {"end", "raised"}) => ofile = prev_ofile

DeterminismWitness ==
    /\ run = 2
    /\ pc = "end"
    /\ Len(written) >= 2

\* C7: an 'unknown' block is processed one distinct sequence at a time, each
\* sub-block with the seed of its own first name, the pool of the clusters
\* that do not occur in the sub-block and its own 1:1 sample, every row in
\* exactly one sub-block; a block of another family is processed whole.
UnknownSplit ==
    /\ pc \in {"L100", "raised"} =>
          LET y == yielded[Len(yielded)]
              b == ToCsv(frame.block)
          IN IF Fam(y) = "unknown"
             THEN /\ b = SelectSeq(ToCsv(y),
                                   LAMBDA l : Cell(l, "noncodingRNA") = Cell(b[1], "noncodingRNA"))
                  /\ frame.seed = Seed(Cell(b[1], "noncodingRNA_name"))
                  /\ ClusterIds(ToCsv(frame.negative_pool))
                        = ClusterIds(ifile.lines) \ ClusterIds(b)
                  /\ pc = "L100" => Len(frame.negatives_df.rows) = Len(b)
             ELSE frame.block = y
    /\ \A j \in 1..Len(yielded) :
          /\ Finished(j) => RowsWrittenFor(j) = Len(yielded[j].rows)
          /\ \A k, l \in 1..Len(written) :
                (k # l /\ written[k].src = j /\ written[l].src = j)
                   => Cell(written[k].positives[1], "noncodingRNA")
                      # Cell(written[l].positives[1], "noncodingRNA")

\* C8: the i-th negative of a block has the RNA fields of the i-th positive,
\* the gene fields of one row of the table, label 0, and the columns of the
\* block in their order.
Assembly ==
    /\ pc = "L100" => frame.negatives_df.columns = frame.block.columns
    /\ \A k \in 1..Len(written) :
          \A i \in 1..Len(written[k].negatives) :
             LET neg == written[k].negatives[i]
             IN /\ Len(neg) = Len(ifile.header)
                /\ \A c \in RnaColumns : Cell(neg, c) = Cell(written[k].positives[i], c)
                /\ Cell(neg, "label") = "0"
                /\ \E r \in 1..Len(ifile.lines) :
                      \A c \in Range(GeneColumns) : Cell(neg, c) = Cell(ifile.lines[r], c)

AssemblyWitness ==
    \E k \in 1..Len(written) :
        /\ Len(written[k].negatives) >= 2
        /\ Cell(written[k].positives[1], "noncodingRNA_name")
              # Cell(written[k].positives[2], "noncodingRNA_name")

\* C9: the blocks yielded are non-empty runs of one family each, consecutive
\* blocks differ in family, and in yield order they are the input rows in
\* input order, all of them once the generator is exhausted.
Segmentation ==
    LET rows == Flatten([k \in 1..Len(yielded) |-> ToCsv(yielded[k])])
    IN /\ \A k \in 1..Len(yielded) :
             /\ yielded[k].rows # <<>>
             /\ \A i \in 1..Len(yielded[k].rows) :
                   yielded[k].rows[i]["noncodingRNA_fam"].s = Fam(yielded[k])
             /\ k > 1 => Fam(yielded[k - 1]) # Fam(yielded[k])
       /\ Len(rows) <= Len(ifile.lines)
       /\ rows = SubSeq(ifile.lines, 1, Len(rows))
       /\ pc = "end" => rows = ifile.lines

\* An unsorted input: the same family is yielded as two separate blocks.
SegmentationWitness ==
    /\ pc = "end"
    /\ Len(yielded) >= 3
    /\ Fam(yielded[1]) = Fam(yielded[3])

\* C10: a failing block writes nothing and ends the run: the output is then
\* the header and the complete groups of the blocks processed before, and
\* nothing happens any more; the positives of a block are in the output
\* without its negatives only when the negatives are written next.
ErrorStopsRun ==
    /\ [](Failed =>
            /\ ofile = <<ifile.header>> \o Flatten(Groups)
            /\ \A j \in 1..(Len(yielded) - 1) : RowsWrittenFor(j) = Len(yielded[j].rows)
            /\ \A k \in 1..Len(written) :
                  written[k].src = Len(yielded)
                     => Cell(written[k].positives[1], "noncodingRNA")
                        # frame.block.rows[1]["noncodingRNA"].s)
    /\ [](pc \notin {"L112", "L100"} => ofile = <<ifile.header>> \o Flatten(Groups))
    /\ [][/\ ~Failed
          /\ pc = "L100" =>
                /\ ofile = <<ifile.header>> \o Flatten(Groups) \o ToCsv(frame.block)
                /\ ofile' = ofile \o ToCsv(frame.negatives_df)]_vars

\* A block fails after another one was written.
ErrorStopsRunWitness ==
    /\ pc = "raised"
    /\ Failed
    /\ Len(written) >= 1

====
